---- MODULE Spec2Model ----
(***************************************************************************)
(* Model of PyInstaller/hooks/hook-_tkinter.py: the hook that locates the  *)
(* Tcl/Tk data files of the _tkinter extension and appends them to the     *)
(* module's datas.                                                         *)
(*                                                                         *)
(* Representation.  A filesystem path is the sequence of its components    *)
(* ("/A/Tcl" is <<"A", "Tcl">>, the empty string is <<>>).  A file name is *)
(* a string; where the code looks inside a name (startswith, endswith) the *)
(* name is spelled out character by character by Chars.  A line of init.tcl*)
(* is a sequence of words and blanks.  Python's None is the value None.    *)
(***************************************************************************)
EXTENDS Integers, Sequences, FiniteSets, TLC

VARIABLES
    pc,          \* position of the run inside hook() and its callees
    platform,    \* sys.platform
    is_venv,     \* PyInstaller.compat.is_venv
    environ0,    \* os.environ when hook() is entered
    environ,     \* os.environ
    listdir,     \* how os.listdir(basedir) ended: "listed", "missing", "unreadable"
    files,       \* what os.listdir(basedir) returned in _handle_broken_tk
    datas0,      \* mod.datas when hook() is entered
    datas,       \* mod.datas
    log,         \* entries handed to logger, in order
    direct,      \* what selectImports(mod.__file__) returned
    bins,        \* local 'bins' of _find_tk
    probe,       \* which of the two _find_tk_* functions _find_tk chose
    tcl_root,    \* local 'tcl_root' of _collect_tkfiles
    tk_root,     \* local 'tk_root' of _collect_tkfiles
    tcltree,     \* local 'tcltree' of _collect_tkfiles
    tktree,      \* local 'tktree' of _collect_tkfiles
    init_body,   \* lines of the init.tcl of the Tcl tree, <<>> when it has none
    execCalls,   \* number of exec_statement subprocesses spawned so far
    treeCalls,   \* roots handed to Tree(), in order
    tk_files,    \* what _collect_tkfiles returned to hook
    called,      \* functions of the module entered so far
    failure,     \* which step raised, "none" if no step did
    result       \* "running", "returned" (hook returned mod) or "raised"

vars == <<pc, platform, is_venv, environ0, environ, listdir, files, datas0, datas, log,
          direct, bins, probe, tcl_root, tk_root, tcltree, tktree, init_body,
          execCalls, treeCalls, tk_files, called, failure, result>>

\* ------------------------------------------------------------------ bounds
MaxListing == 3   \* entries of a listing of <base_prefix>/tcl
MaxBins == 2      \* entries of a dependency list
MaxLines == 3     \* lines of an init.tcl

\* ------------------------------------------------------------ basic values
None == <<"<None>">>

\* Python truth value of a path-or-None: None and '' are false.
Falsy(x) == x = None \/ x = <<>>

RECURSIVE SeqsUpTo(_, _)
SeqsUpTo(S, n) ==
    IF n = 0 THEN {<<>>}
    ELSE LET shorter == SeqsUpTo(S, n - 1)
         IN  shorter \cup {Append(s, e) : s \in {t \in shorter : Len(t) = n - 1}, e \in S}

Distinct(s) == \A i, j \in 1..Len(s) : i # j => s[i] # s[j]

\* The spelling of the names the code looks inside.
Chars(s) ==
    CASE s = "tcl"          -> <<"t", "c", "l">>
      [] s = "tk"           -> <<"t", "k">>
      [] s = "tix"          -> <<"t", "i", "x">>
      [] s = "tcl8"         -> <<"t", "c", "l", "8">>
      [] s = "tcl8.6"       -> <<"t", "c", "l", "8", ".", "6">>
      [] s = "tk8.6"        -> <<"t", "k", "8", ".", "6">>
      [] s = "tix8.4"       -> <<"t", "i", "x", "8", ".", "4">>
      [] s = "tcl.txt"      -> <<"t", "c", "l", ".", "t", "x", "t">>
      [] s = "dde1.4"       -> <<"d", "d", "e", "1", ".", "4">>
      [] s = "init.tcl"     -> <<"i", "n", "i", "t", ".", "t", "c", "l">>
      [] s = "tk.tcl"       -> <<"t", "k", ".", "t", "c", "l">>
      [] s = "tcl8.lib"     -> <<"t", "c", "l", "8", ".", "l", "i", "b">>
      [] s = "*.lib"        -> <<"*", ".", "l", "i", "b">>
      [] s = "demos"        -> <<"d", "e", "m", "o", "s">>
      [] s = "tclConfig.sh" -> <<"t", "c", "l", "C", "o", "n", "f", "i", "g", ".", "s", "h">>
      [] s = "tkConfig.sh"  -> <<"t", "k", "C", "o", "n", "f", "i", "g", ".", "s", "h">>
      [] s = "pkgIndex.tcl" -> <<"p", "k", "g", "I", "n", "d", "e", "x", ".", "t", "c", "l">>

\* str.startswith and str.endswith
StartsWith(s, prefix) ==
    LET c == Chars(s)
        p == Chars(prefix)
    IN  Len(c) >= Len(p) /\ SubSeq(c, 1, Len(p)) = p

EndsWithChars(c, p) ==
    Len(c) >= Len(p) /\ SubSeq(c, Len(c) - Len(p) + 1, Len(c)) = p

EndsWith(s, suffix) == EndsWithChars(Chars(s), Chars(suffix))

\* os.path.join (the second argument is relative), dirname, basename
Join(a, b) == a \o b

Dirname(p) == IF p = <<>> THEN <<>> ELSE SubSeq(p, 1, Len(p) - 1)

Basename(p) == IF p = <<>> THEN "" ELSE p[Len(p)]

\* ----------------------------------------------------- PyInstaller.compat
is_win == platform = "win32"

is_darwin == platform = "darwin"

is_unix == platform = "linux2"

base_prefix == <<"C:", "Python27">>

Platforms == {"win32", "darwin", "linux2", "os2emx"}

\* ------------------------------------------------------ _handle_broken_tk
EnvVars == {"TCL_LIBRARY", "TK_LIBRARY", "TIX_LIBRARY", "PATH"}

\* One entry of os.listdir(basedir): its name, and what os.path.isdir says.
DirEntries ==
    { [name |-> "tcl8",    isdir |-> TRUE],
      [name |-> "tcl8.6",  isdir |-> TRUE],
      [name |-> "tk8.6",   isdir |-> TRUE],
      [name |-> "tix8.4",  isdir |-> TRUE],
      [name |-> "tcl.txt", isdir |-> FALSE],
      [name |-> "dde1.4",  isdir |-> TRUE] }

Listings == {s \in SeqsUpTo(DirEntries, MaxListing) : Distinct(s)}

\* ScanEntry without the os.path.isdir tests.
ScanEntryAnyFile(e, basedir, v) ==
    LET abs_path == Join(basedir, <<e.name>>)
        v1 == IF StartsWith(e.name, "tcl")
              THEN [v EXCEPT !["TCL_LIBRARY"] = abs_path] ELSE v
        v2 == IF StartsWith(e.name, "tk")
              THEN [v1 EXCEPT !["TK_LIBRARY"] = abs_path] ELSE v1
        v3 == IF StartsWith(e.name, "tix")
              THEN [v2 EXCEPT !["TIX_LIBRARY"] = abs_path] ELSE v2
    IN  v3

\* One pass of the loop body (lines 40-46) for entry e.
ScanEntry(e, basedir, v) ==
    LET abs_path == Join(basedir, <<e.name>>)
        v1 == IF StartsWith(e.name, "tcl") /\ e.isdir
              THEN [v EXCEPT !["TCL_LIBRARY"] = abs_path] ELSE v
        v2 == IF StartsWith(e.name, "tk") /\ e.isdir
              THEN [v1 EXCEPT !["TK_LIBRARY"] = abs_path] ELSE v1
        v3 == IF StartsWith(e.name, "tix") /\ e.isdir
              THEN [v2 EXCEPT !["TIX_LIBRARY"] = abs_path] ELSE v2
    IN  v3

\* The for loop of lines 39-46 over the listing fs, starting from environment v.
RECURSIVE ScanFiles(_, _, _)
ScanFiles(fs, basedir, v) ==
    IF fs = <<>> THEN v
    ELSE ScanFiles(Tail(fs), basedir, ScanEntry(Head(fs), basedir, v))

\* -------------------------------------------- _find_tk_darwin_frameworks
ResourcesScripts == <<"Resources", "Scripts">>

\* FrameworkEntry joining the suffix to the binary's path, not its directory.
FrameworkEntryNoDirname(b, roots) ==
    LET r1 == IF b.nm = "Tcl"
              THEN [roots EXCEPT !.tcl = Join(b.fnm, ResourcesScripts)]
              ELSE roots
        r2 == IF b.nm = "Tk"
              THEN [r1 EXCEPT !.tk = Join(b.fnm, ResourcesScripts)]
              ELSE r1
    IN  r2

\* One pass of the loop body (lines 107-110) for the pair b = (nm, fnm).
FrameworkEntry(b, roots) ==
    LET r1 == IF b.nm = "Tcl"
              THEN [roots EXCEPT !.tcl = Join(Dirname(b.fnm), ResourcesScripts)]
              ELSE roots
        r2 == IF b.nm = "Tk"
              THEN [r1 EXCEPT !.tk = Join(Dirname(b.fnm), ResourcesScripts)]
              ELSE r1
    IN  r2

RECURSIVE FrameworkScan(_, _)
FrameworkScan(binaries, roots) ==
    IF binaries = <<>> THEN roots
    ELSE FrameworkScan(Tail(binaries), FrameworkEntry(Head(binaries), roots))

\* Returns the pair (tcl_root, tk_root) as a record.
_find_tk_darwin_frameworks(binaries) ==
    FrameworkScan(binaries, [tcl |-> None, tk |-> None])

\* ------------------------------------------------------------- _find_tk
\* 'Library/Frameworks' in path: true of a path with the two components
\* next to each other (no component of the model holds either word as a part).
ContainsLibraryFrameworks(p) ==
    \E i \in 1..(Len(p) - 1) : p[i] = "Library" /\ p[i + 1] = "Frameworks"

\* path_to_tcl taking the last pair instead of the first.
path_of_last(bs) == bs[Len(bs)].fnm

\* Line 165: the path the choice of strategy is made on.
path_to_tcl(bs) == bs[1].fnm

\* Line 166: TRUE when _find_tk_darwin_frameworks is used, FALSE for the Tcl shell.
UseFrameworks(bs) == ContainsLibraryFrameworks(path_to_tcl(bs))

\* Lines 156-158: mapping[os.path.basename(l)] = l for each l, later ones winning.
RECURSIVE BuildMapping(_, _)
BuildMapping(libs, mapping) ==
    IF libs = <<>> THEN mapping
    ELSE LET l == Head(libs)
         IN  BuildMapping(Tail(libs), (Basename(l) :> l) @@ mapping)

\* Lines 159-162, where both keys exist.
Reformat(mapping) ==
    << [nm |-> "Tcl", fnm |-> mapping["Tcl"]], [nm |-> "Tk", fnm |-> mapping["Tk"]] >>

\* What the dependency scanner can report on macOS: (name, path) pairs.
DarwinEntries ==
    { [nm |-> "Tcl", fnm |-> <<"Library", "Frameworks", "Tcl.framework", "Tcl">>],
      [nm |-> "Tk",  fnm |-> <<"Library", "Frameworks", "Tk.framework", "Tk">>],
      [nm |-> "Tcl", fnm |-> <<"System", "Library", "Frameworks", "Tcl.framework", "Tcl">>],
      [nm |-> "Tcl", fnm |-> <<"Users", "me", "Library", "Frameworks", "Tcl.framework", "Tcl">>],
      [nm |-> "Tcl", fnm |-> <<"A", "Tcl">>],
      [nm |-> "Tk",  fnm |-> <<"A", "Tk">>],
      [nm |-> "libz.dylib", fnm |-> <<"usr", "lib", "libz.dylib">>] }

OtherEntries ==
    { [nm |-> "libtcl8.6.so", fnm |-> <<"usr", "lib", "libtcl8.6.so">>] }

\* selectImports(mod.__file__): a list of (name, path) pairs, possibly empty.
Dependencies ==
    IF is_darwin
    THEN {s \in SeqsUpTo(DarwinEntries, MaxBins) : Distinct(s)}
    ELSE SeqsUpTo(OtherEntries, 1)

\* getImports(mod.__file__): a set of paths, in the order the loop visits it.
Closures ==
    {s \in SeqsUpTo({e.fnm : e \in DarwinEntries}, MaxBins) : Distinct(s)}

\* ------------------------------------------------------ _find_tk_tclshell
\* What the subprocess printing 'info library' can print.
InfoLibraryOutputs ==
    { <<"usr", "lib", "tcl8.6">>, <<"opt", "local", "lib", "tcl8.6">>, <<>> }

\* What the subprocess printing TK_VERSION can print.
TkVersionOutputs == {"8.5", "8.6"}

\* Line 130
TkRootFor(root, tk_version) == Join(Dirname(root), <<"tk" \o tk_version>>)

\* ------------------------------------------------- PyInstaller.build.Tree
\* Files that can lie under a Tcl or Tk root, as paths relative to the root.
Disks ==
    { << <<"init.tcl">>, <<"demos", "tk.tcl">>, <<"tcl8.lib">> >>,
      << <<"tclConfig.sh">>, <<"tkConfig.sh">>, <<"pkgIndex.tcl">>, <<"init.tcl">> >>,
      << <<"tk.tcl">>, <<"pkgIndex.tcl">> >>,
      << >> }

\* An exclude pattern '*suffix' matches names ending in suffix, any other
\* pattern matches the name equal to it.
Matches(name, pat) ==
    IF Head(Chars(pat)) = "*"
    THEN EndsWithChars(Chars(name), Tail(Chars(pat)))
    ELSE name = pat

Excluded(rel, excludes) ==
    \E i \in 1..Len(rel) : \E pat \in excludes : Matches(rel[i], pat)

\* Tree(root, prefix, excludes) over the files disk found under root: one
\* entry (name, path, typecode) per file that no pattern excludes.
Tree(root, prefix, excludes, disk) ==
    LET Kept(rel) == ~Excluded(rel, excludes)
        Entry(rel) == [name |-> Join(prefix, rel), path |-> Join(root, rel),
                       typecode |-> "DATA"]
        kept == SelectSeq(disk, Kept)
    IN  [i \in 1..Len(kept) |-> Entry(kept[i])]

\* Lines 189-193 and 199-200: the arguments of the two Tree calls.
TclPrefix == <<"_MEI", "tcl">>

TkPrefix == <<"_MEI", "tk">>

TclExcludes == {"demos", "*.lib", "tclConfig.sh"}

TkExcludes == {"demos", "*.lib", "tkConfig.sh"}

\* TreeSum with the operands swapped.
TreeSumSwapped(tcl, tk) == tk \o tcl

\* Line 201
TreeSum(tcl, tk) == tcl \o tk

\* ------------------------------ _warn_if_actvivetcl_or_teapot_install
\* macholib.util.in_system_path: under /System/ or /usr/, but not /usr/local/.
in_system_path(p) ==
    /\ Len(p) >= 2
    /\ ~(p[1] = "usr" /\ p[2] = "local")
    /\ p[1] \in {"System", "usr"}

\* str.lower on one word of a line
LowerWord(w) ==
    CASE w = "ActiveTcl" -> "activetcl"
      [] w = "TEAPOT"    -> "teapot"
      [] w = "Teapot"    -> "teapot"
      [] OTHER           -> w

Lower(line) == [i \in 1..Len(line) |-> LowerWord(line[i])]

\* str.strip: blanks removed at both ends
RECURSIVE LStrip(_)
LStrip(line) ==
    IF line # <<>> /\ Head(line) = " " THEN LStrip(Tail(line)) ELSE line

RECURSIVE RStrip(_)
RStrip(line) ==
    IF line # <<>> /\ line[Len(line)] = " "
    THEN RStrip(SubSeq(line, 1, Len(line) - 1)) ELSE line

Strip(line) == RStrip(LStrip(line))

\* line.startswith('#') and 'word' in line
IsComment(line) == line # <<>> /\ Head(line) = "#"

Mentions(line, word) == \E i \in 1..Len(line) : line[i] = word

\* Line 71: the paths of the tree's entries that end in 'init.tcl'.
InitResources(tree) ==
    LET IsInit(r) == EndsWith(Basename(r.path), "init.tcl")
    IN  SelectSeq(tree, IsInit)

\* ScanLines without the test for comment lines.
RECURSIVE ScanLinesNoSkip(_, _)
ScanLinesNoSkip(lines, m) ==
    IF lines = <<>> THEN m
    ELSE LET line == Lower(Strip(Head(lines)))
             m1 == [activetcl |-> m.activetcl \/ Mentions(line, "activetcl"),
                    teapot    |-> m.teapot \/ Mentions(line, "teapot")]
         IN  IF m1.activetcl /\ m1.teapot THEN m1
             ELSE ScanLinesNoSkip(Tail(lines), m1)

\* Lines 79-88: the loop over the file's lines, m holding the two flags.
RECURSIVE ScanLines(_, _)
ScanLines(lines, m) ==
    IF lines = <<>> THEN m
    ELSE LET line == Lower(Strip(Head(lines)))
         IN  IF IsComment(line) THEN ScanLines(Tail(lines), m)
             ELSE LET m1 == [activetcl |-> m.activetcl \/ Mentions(line, "activetcl"),
                             teapot    |-> m.teapot \/ Mentions(line, "teapot")]
                  IN  IF m1.activetcl /\ m1.teapot THEN m1
                      ELSE ScanLines(Tail(lines), m1)

WarningEntry(init_resource) ==
    [level |-> "warning", msg |-> "It seems you are using an ActiveTcl build of Tcl/Tk.",
     arg |-> init_resource]

\* The log entries the function adds, given the body that open() reads.
_warn_if_actvivetcl_or_teapot_install(root, tree, body) ==
    IF in_system_path(root) THEN <<>>
    ELSE IF InitResources(tree) = <<>> THEN <<>>
    ELSE LET init_resource == InitResources(tree)[1].path
             m == ScanLines(body, [activetcl |-> FALSE, teapot |-> FALSE])
         IN  IF m.activetcl /\ m.teapot THEN <<WarningEntry(init_resource)>> ELSE <<>>

\* Lines of an init.tcl: words and blanks.
Lines ==
    { <<"#", " ", "ActiveTcl", " ", "teapot">>,
      <<" ", "#", "TEAPOT", " ">>,
      <<" ", "package", " ", "ActiveTcl", " ">>,
      <<"set", " ", "Teapot">>,
      <<"ActiveTcl", " ", "#", " ", "teapot">>,
      <<"set", " ", "x">>,
      << >> }

Bodies == SeqsUpTo(Lines, MaxLines)

\* ------------------------------------------------------------------ hook
\* Supported with every platform accepted.
SupportedAlways == TRUE

\* Line 206
Supported == is_win \/ is_darwin \/ is_unix

InfoEntry ==
    [level |-> "info", msg |-> "... skipping TCL/TK detection on this platform (%s)",
     arg |-> <<platform>>]

ErrorEntry ==
    [level |-> "error", msg |-> "TCL/TK seams to be not properly installed on this system",
     arg |-> <<>>]

\* An exception leaves hook(): lines 212 and 215-216 are comments, so nothing
\* between the raising call and hook's caller catches it.
Raise(step) ==
    /\ pc' = "done"
    /\ result' = "raised"
    /\ failure' = step

\* Lines 204-209 and the call of line 213
hook_entry ==
    /\ pc = "hook"
    /\ called' = called \cup {"hook"}
    /\ IF ~Supported
       THEN /\ log' = Append(log, InfoEntry)
            /\ pc' = "done"
            /\ result' = "returned"
       ELSE /\ pc' = "handle_broken_tk"
            /\ UNCHANGED <<log, result>>
    /\ UNCHANGED <<platform, is_venv, environ0, environ, listdir, files, datas0, datas,
                   direct, bins, probe, tcl_root, tk_root, tcltree, tktree, init_body,
                   execCalls, treeCalls, tk_files, failure>>

\* ListdirRaises with the exception swallowed and the run going on.
ListdirSwallowed ==
    /\ pc' = "find_tk"
    /\ result' = result
    /\ failure' = "_handle_broken_tk"

\* Line 36 when os.listdir raises (the directory is missing or unreadable).
ListdirRaises == Raise("_handle_broken_tk")

\* Lines 181 and 22-46, the listing drawn from listings.
handle_broken_tk(listings) ==
    /\ pc = "handle_broken_tk"
    /\ called' = called \cup {"_handle_broken_tk"}
    /\ IF is_win /\ is_venv
       THEN \/ /\ ListdirRaises
               /\ listdir' \in {"missing", "unreadable"}
               /\ UNCHANGED <<files, environ>>
            \/ \E fs \in listings :
                 /\ listdir' = "listed"
                 /\ files' = fs
                 /\ environ' = ScanFiles(fs, Join(base_prefix, <<"tcl">>), environ)
                 /\ pc' = "find_tk"
                 /\ UNCHANGED <<result, failure>>
       ELSE /\ pc' = "find_tk"
            /\ UNCHANGED <<listdir, files, environ, result, failure>>
    /\ UNCHANGED <<platform, is_venv, environ0, datas0, datas, log, direct, bins, probe,
                   tcl_root, tk_root, tcltree, tktree, init_body, execCalls, treeCalls,
                   tk_files>>

\* Lines 183 and 142-147
select_imports ==
    /\ pc = "find_tk"
    /\ called' = called \cup {"_find_tk"}
    /\ \E b \in Dependencies :
         /\ direct' = b
         /\ bins' = b
         /\ pc' = IF is_darwin
                  THEN IF b = <<>> THEN "get_imports" ELSE "select_probe"
                  ELSE "tclshell"
    /\ probe' = IF is_darwin THEN probe ELSE "_find_tk_tclshell"
    /\ UNCHANGED <<platform, is_venv, environ0, environ, listdir, files, datas0, datas,
                   log, tcl_root, tk_root, tcltree, tktree, init_body, execCalls,
                   treeCalls, tk_files, failure, result>>

\* Lines 151-162: the closure fallback; a missing key raises KeyError.
get_imports ==
    /\ pc = "get_imports"
    /\ \E libs \in Closures :
         LET mapping == BuildMapping(libs, <<>>)
         IN  IF {"Tcl", "Tk"} \subseteq DOMAIN mapping
             THEN /\ bins' = Reformat(mapping)
                  /\ pc' = "select_probe"
                  /\ UNCHANGED <<failure, result>>
             ELSE /\ Raise("_find_tk")
                  /\ UNCHANGED bins
    /\ UNCHANGED <<platform, is_venv, environ0, environ, listdir, files, datas0, datas,
                   log, direct, probe, tcl_root, tk_root, tcltree, tktree, init_body,
                   execCalls, treeCalls, tk_files, called>>

\* Lines 165-171
select_probe ==
    /\ pc = "select_probe"
    /\ IF UseFrameworks(bins)
       THEN /\ probe' = "_find_tk_darwin_frameworks"
            /\ called' = called \cup {"_find_tk_darwin_frameworks"}
            /\ tcl_root' = _find_tk_darwin_frameworks(bins).tcl
            /\ tk_root' = _find_tk_darwin_frameworks(bins).tk
            /\ pc' = "check_root"
       ELSE /\ probe' = "_find_tk_tclshell"
            /\ pc' = "tclshell"
            /\ UNCHANGED <<called, tcl_root, tk_root>>
    /\ UNCHANGED <<platform, is_venv, environ0, environ, listdir, files, datas0, datas,
                   log, direct, bins, tcltree, tktree, init_body, execCalls, treeCalls,
                   tk_files, failure, result>>

\* Lines 122-127: the first subprocess; it prints a path or the call raises.
tclshell_info_library ==
    /\ pc = "tclshell"
    /\ called' = called \cup {"_find_tk_tclshell"}
    /\ execCalls' = execCalls + 1
    /\ \/ /\ Raise("_find_tk_tclshell")
          /\ UNCHANGED tcl_root
       \/ \E out \in InfoLibraryOutputs :
            /\ tcl_root' = out
            /\ pc' = "tclshell_version"
            /\ UNCHANGED <<failure, result>>
    /\ UNCHANGED <<platform, is_venv, environ0, environ, listdir, files, datas0, datas,
                   log, direct, bins, probe, tk_root, tcltree, tktree, init_body,
                   treeCalls, tk_files>>

\* Lines 128-131: the second subprocess.
tclshell_tk_version ==
    /\ pc = "tclshell_version"
    /\ execCalls' = execCalls + 1
    /\ \/ /\ Raise("_find_tk_tclshell")
          /\ UNCHANGED tk_root
       \/ \E tk_version \in TkVersionOutputs :
            /\ tk_root' = TkRootFor(tcl_root, tk_version)
            /\ pc' = "check_root"
            /\ UNCHANGED <<failure, result>>
    /\ UNCHANGED <<platform, is_venv, environ0, environ, listdir, files, datas0, datas,
                   log, direct, bins, probe, tcl_root, tcltree, tktree, init_body,
                   treeCalls, tk_files, called>>

\* Lines 185-187
check_root ==
    /\ pc = "check_root"
    /\ IF Falsy(tcl_root)
       THEN /\ log' = Append(log, ErrorEntry)
            /\ tk_files' = <<>>
            /\ pc' = "extend"
       ELSE /\ pc' = "tcltree"
            /\ UNCHANGED <<log, tk_files>>
    /\ UNCHANGED <<platform, is_venv, environ0, environ, listdir, files, datas0, datas,
                   direct, bins, probe, tcl_root, tk_root, tcltree, tktree, init_body,
                   execCalls, treeCalls, called, failure, result>>

\* Lines 192-193: Tree raises (a root that cannot be listed) or builds the list.
build_tcltree ==
    /\ pc = "tcltree"
    /\ treeCalls' = Append(treeCalls, tcl_root)
    /\ \/ /\ Raise("Tree")
          /\ UNCHANGED tcltree
       \/ \E disk \in Disks :
            /\ tcltree' = Tree(tcl_root, TclPrefix, TclExcludes, disk)
            /\ pc' = IF is_darwin THEN "advisor" ELSE "tktree"
            /\ UNCHANGED <<failure, result>>
    /\ UNCHANGED <<platform, is_venv, environ0, environ, listdir, files, datas0, datas,
                   log, direct, bins, probe, tcl_root, tk_root, tktree, init_body,
                   execCalls, tk_files, called>>

\* Lines 195-197 and 49-98, the body of init.tcl drawn from bodies.
advisor(bodies) ==
    /\ pc = "advisor"
    /\ called' = called \cup {"_warn_if_actvivetcl_or_teapot_install"}
    /\ \E body \in bodies :
         /\ init_body' = IF InitResources(tcltree) = <<>> THEN <<>> ELSE body
         /\ log' = log \o _warn_if_actvivetcl_or_teapot_install(tcl_root, tcltree, body)
    /\ pc' = "tktree"
    /\ UNCHANGED <<platform, is_venv, environ0, environ, listdir, files, datas0, datas,
                   direct, bins, probe, tcl_root, tk_root, tcltree, tktree, execCalls,
                   treeCalls, tk_files, failure, result>>

\* Lines 199-201.  Tree on a root that is None raises or finds nothing.
build_tktree ==
    /\ pc = "tktree"
    /\ treeCalls' = Append(treeCalls, tk_root)
    /\ \/ /\ Raise("Tree")
          /\ UNCHANGED <<tktree, tk_files>>
       \/ \E disk \in (IF tk_root = None THEN {<<>>} ELSE Disks) :
            /\ tktree' = Tree(tk_root, TkPrefix, TkExcludes, disk)
            /\ tk_files' = TreeSum(tcltree, tktree')
            /\ pc' = "extend"
            /\ UNCHANGED <<failure, result>>
    /\ UNCHANGED <<platform, is_venv, environ0, environ, listdir, files, datas0, datas,
                   log, direct, bins, probe, tcl_root, tk_root, tcltree, init_body,
                   execCalls, called>>

\* Lines 214 and 218
extend_datas ==
    /\ pc = "extend"
    /\ datas' = datas \o tk_files
    /\ result' = "returned"
    /\ pc' = "done"
    /\ UNCHANGED <<platform, is_venv, environ0, environ, listdir, files, datas0, log,
                   direct, bins, probe, tcl_root, tk_root, tcltree, tktree, init_body,
                   execCalls, treeCalls, tk_files, called, failure>>

\* ------------------------------------------------------- specifications
\* os.environ on entry: each of the three variables unset (None) or set.
Environments ==
    { [v \in EnvVars |->
         IF v = "PATH" THEN <<"usr", "bin">>
         ELSE IF v \in set THEN <<"old", v>> ELSE None] :
      set \in SUBSET {"TCL_LIBRARY", "TK_LIBRARY", "TIX_LIBRARY"} }

\* mod.datas on entry
EntryDatas ==
    { <<>>, << [name |-> <<"README">>, path |-> <<"src", "README">>, typecode |-> "DATA"] >> }

\* Listings and bodies the whole run of hook() is checked with.
RunListings ==
    { <<>>,
      << [name |-> "tcl8.6", isdir |-> TRUE], [name |-> "tk8.6", isdir |-> TRUE] >> }

RunBodies ==
    { <<>>,
      << <<"package", " ", "ActiveTcl">>, <<"set", " ", "Teapot">> >> }

\* The state on entry to hook(), but for pc, called, tcl_root, tcltree and treeCalls.
Fresh ==
    /\ platform \in Platforms
    /\ is_venv \in BOOLEAN
    /\ environ0 \in Environments
    /\ environ = environ0
    /\ listdir = "none"
    /\ files = <<>>
    /\ datas0 \in EntryDatas
    /\ datas = datas0
    /\ log = <<>>
    /\ direct = <<>>
    /\ bins = <<>>
    /\ probe = "none"
    /\ tk_root = None
    /\ tktree = <<>>
    /\ init_body = <<>>
    /\ execCalls = 0
    /\ tk_files = <<>>
    /\ failure = "none"
    /\ result = "running"

\* One call of hook(mod).
Init ==
    /\ pc = "hook"
    /\ called = {}
    /\ tcl_root = None
    /\ tcltree = <<>>
    /\ treeCalls = <<>>
    /\ Fresh

Next ==
    \/ hook_entry
    \/ handle_broken_tk(RunListings)
    \/ select_imports
    \/ get_imports
    \/ select_probe
    \/ tclshell_info_library
    \/ tclshell_tk_version
    \/ check_root
    \/ build_tcltree
    \/ advisor(RunBodies)
    \/ build_tktree
    \/ extend_datas

Spec == Init /\ [][Next]_vars

\* _handle_broken_tk alone, at its call from _collect_tkfiles, over every listing.
InitNormalizer ==
    /\ pc = "handle_broken_tk"
    /\ called = {"hook"}
    /\ tcl_root = None
    /\ tcltree = <<>>
    /\ treeCalls = <<>>
    /\ Fresh
    /\ Supported

NextNormalizer == handle_broken_tk(Listings)

SpecNormalizer == InitNormalizer /\ [][NextNormalizer]_vars

\* _warn_if_actvivetcl_or_teapot_install alone, at its call from
\* _collect_tkfiles, over every root, tree and body.
AdvisorRoots ==
    { <<"System", "Library", "Frameworks", "Tcl.framework", "Resources", "Scripts">>,
      <<"Library", "Frameworks", "Tcl.framework", "Resources", "Scripts">>,
      <<"usr", "lib", "tcl8.6">>,
      <<"usr", "local", "lib", "tcl8.6">>,
      <<"opt", "local", "lib", "tcl8.6">> }

InitAdvisor ==
    /\ pc = "advisor"
    /\ called = {"hook", "_handle_broken_tk", "_find_tk"}
    /\ tcl_root \in AdvisorRoots
    /\ tcltree \in {Tree(tcl_root, TclPrefix, TclExcludes, disk) : disk \in Disks}
    /\ treeCalls = <<tcl_root>>
    /\ Fresh
    /\ is_darwin
    /\ ~is_venv
    /\ datas0 = <<>>
    /\ \A v \in EnvVars \ {"PATH"} : environ0[v] = None

NextAdvisor == advisor(Bodies)

SpecAdvisor == InitAdvisor /\ [][NextAdvisor]_vars

\* ---------------------------------------------------------------- claims
HasError(l) == \E i \in 1..Len(l) : l[i].level = "error"

Warnings(l) == {i \in 1..Len(l) : l[i].level = "warning"}

SupportedPlatforms == {"win32", "darwin", "linux2"}

\* hook() is over: it returned mod or an exception left it.
Over == pc = "done"

\* _collect_tkfiles has the two roots that _find_tk returned.
RootsReturned ==
    \/ pc \in {"tcltree", "advisor", "tktree", "extend"}
    \/ Over /\ platform \in SupportedPlatforms /\ failure \in {"none", "Tree"}

\* C1: when a discovery step fails (the Tcl shell subprocess, the lookup of the
\* Tcl/Tk entries, or Tree for a root), hook still returns mod, with an error
\* logged and mod.datas as on entry.
C1_DiscoveryFailureCaught ==
    (Over /\ failure \in {"_find_tk", "_find_tk_tclshell", "Tree"}) =>
        /\ result = "returned"
        /\ HasError(log)
        /\ datas = datas0

\* C2: when tcl_root or tk_root is absent, _collect_tkfiles logs an error, hands
\* no root to Tree and returns the empty list, so that hook returns mod with
\* mod.datas as on entry.
C2_AbsentRootYieldsEmpty ==
    (RootsReturned /\ (Falsy(tcl_root) \/ Falsy(tk_root))) =>
        /\ HasError(log)
        /\ treeCalls = <<>>
        /\ tk_files = <<>>
        /\ Over => (result = "returned" /\ datas = datas0)

\* The direct-link list d holds exactly one pair named 'Tcl' and one named 'Tk',
\* with different paths.
ExactlyTclTk(d) ==
    /\ Len(d) = 2
    /\ {d[1].nm, d[2].nm} = {"Tcl", "Tk"}
    /\ d[1].fnm # d[2].fnm

PathNamed(d, nm) == d[CHOOSE i \in 1..Len(d) : d[i].nm = nm].fnm

FrameworkRootsOf(d) ==
    /\ tcl_root = Dirname(PathNamed(d, "Tcl")) \o <<"Resources", "Scripts">>
    /\ tk_root = Dirname(PathNamed(d, "Tk")) \o <<"Resources", "Scripts">>

NoSubprocess ==
    /\ execCalls = 0
    /\ "_find_tk_tclshell" \notin called
    /\ pc \notin {"tclshell", "tclshell_version"}

\* C3 as stated: on macOS, for every direct-link list holding exactly 'Tcl' and
\* 'Tk' with different paths, whatever the order and the paths, _find_tk returns
\* the two framework roots and spawns no subprocess.
C3_AnyPathsUseFrameworks ==
    (platform = "darwin" /\ ExactlyTclTk(direct)) =>
        /\ NoSubprocess
        /\ failure = "none"
        /\ pc \notin {"find_tk", "select_probe"} => FrameworkRootsOf(direct)

\* C3 amended: the same, for the lists whose first pair has a path containing
\* 'Library/Frameworks'.
C3_FrameworkPathsUseFrameworks ==
    (/\ platform = "darwin"
     /\ ExactlyTclTk(direct)
     /\ ContainsLibraryFrameworks(direct[1].fnm)) =>
        /\ NoSubprocess
        /\ failure \in {"none", "Tree"}
        /\ pc \notin {"find_tk", "select_probe"} => FrameworkRootsOf(direct)

C3_Witness ==
    /\ platform = "darwin"
    /\ ExactlyTclTk(direct)
    /\ ContainsLibraryFrameworks(direct[1].fnm)
    /\ direct[1].nm = "Tk"
    /\ ~ContainsLibraryFrameworks(direct[2].fnm)
    /\ pc = "check_root"

\* A path below ~/Library/Frameworks.
UserLocal(p) == Len(p) >= 4 /\ SubSeq(p, 1, 4) = <<"Users", "me", "Library", "Frameworks">>

StrategyChosen == platform = "darwin" /\ probe # "none"

\* C4 as stated: on macOS, when the path of the Tcl component lies under a
\* user-local framework directory, the Tcl shell is used and
\* _find_tk_darwin_frameworks is not.
C4_UserLocalUsesShell ==
    (/\ StrategyChosen
     /\ \E i \in 1..Len(bins) : bins[i].nm = "Tcl"
     /\ \A i \in 1..Len(bins) : bins[i].nm = "Tcl" => UserLocal(bins[i].fnm)) =>
        /\ probe = "_find_tk_tclshell"
        /\ "_find_tk_darwin_frameworks" \notin called

\* C4 amended: on macOS the choice is made on the path of the first pair of the
\* list: when it contains 'Library/Frameworks', as a path below
\* ~/Library/Frameworks does, _find_tk_darwin_frameworks is used and no
\* subprocess is spawned; otherwise the Tcl shell is used and
\* _find_tk_darwin_frameworks is not.
C4_FirstPathDecides ==
    StrategyChosen =>
        IF ContainsLibraryFrameworks(bins[1].fnm)
        THEN /\ probe = "_find_tk_darwin_frameworks"
             /\ "_find_tk_darwin_frameworks" \in called
             /\ NoSubprocess
        ELSE /\ probe = "_find_tk_tclshell"
             /\ "_find_tk_darwin_frameworks" \notin called

C4_Witness ==
    /\ StrategyChosen
    /\ bins[1].nm = "Tcl"
    /\ UserLocal(bins[1].fnm)
    /\ probe = "_find_tk_darwin_frameworks"
    /\ pc = "check_root"

\* C5: on a platform that is none of Windows, macOS and Unix, hook returns mod
\* with mod.datas unchanged, logs exactly one entry, at info level and naming the
\* platform, and enters none of the other functions.
C5_UnsupportedPlatformSkips ==
    platform \notin SupportedPlatforms =>
        /\ called \subseteq {"hook"}
        /\ datas = datas0
        /\ environ = environ0
        /\ execCalls = 0
        /\ treeCalls = <<>>
        /\ failure = "none"
        /\ pc \in {"hook", "done"}
        /\ pc = "hook" => log = <<>>
        /\ pc = "done" =>
              /\ result = "returned"
              /\ Len(log) = 1
              /\ log[1].level = "info"
              /\ log[1].arg = <<platform>>

C5_Witness ==
    /\ platform = "os2emx"
    /\ pc = "done"
    /\ result = "returned"
    /\ datas0 # <<>>

\* _handle_broken_tk ran to its end on Windows in a virtual environment.
NormalizerRan ==
    /\ platform = "win32"
    /\ is_venv
    /\ listdir = "listed"

\* The places in listing fs of the directories whose name starts with prefix.
Matching(fs, prefix) ==
    {i \in 1..Len(fs) : fs[i].isdir /\ StartsWith(fs[i].name, prefix)}

Least(S) == CHOOSE i \in S : \A j \in S : i <= j

Greatest(S) == CHOOSE i \in S : \A j \in S : j <= i

VarPrefixes ==
    { <<"TCL_LIBRARY", "tcl">>, <<"TK_LIBRARY", "tk">>, <<"TIX_LIBRARY", "tix">> }

AbsPathOf(fs, i) == base_prefix \o <<"tcl", fs[i].name>>

\* C6 as stated: after _handle_broken_tk each variable holds the absolute path
\* of the FIRST directory of the listing whose name starts with its prefix, and
\* keeps its value when there is none.
C6_FirstMatchWins ==
    NormalizerRan =>
        \A vp \in VarPrefixes :
            LET at == Matching(files, vp[2])
            IN  environ[vp[1]] = IF at = {} THEN environ0[vp[1]]
                                 ELSE AbsPathOf(files, Least(at))

\* C6 amended: each variable holds the absolute path of the LAST directory of the
\* listing whose name starts with its prefix, and keeps its value when there is
\* none; no other variable changes.
C6_LastMatchWins ==
    NormalizerRan =>
        /\ \A vp \in VarPrefixes :
              LET at == Matching(files, vp[2])
              IN  environ[vp[1]] = IF at = {} THEN environ0[vp[1]]
                                   ELSE AbsPathOf(files, Greatest(at))
        /\ environ["PATH"] = environ0["PATH"]

C6_Witness ==
    /\ NormalizerRan
    /\ Cardinality(Matching(files, "tcl")) >= 2
    /\ Matching(files, "tix") = {}
    /\ environ0["TIX_LIBRARY"] = None
    /\ pc = "find_tk"

\* C7: _handle_broken_tk raises nothing and leaves the environment unchanged
\* when the platform is not Windows in a virtual environment, and also when it is
\* but <base_prefix>/tcl does not exist.
C7_NoOpWithoutBaseDir ==
    (/\ "_handle_broken_tk" \in called
     /\ \/ ~(platform = "win32" /\ is_venv)
        \/ listdir = "missing") =>
        /\ failure # "_handle_broken_tk"
        /\ environ = environ0

\* Line i of body is no comment and mentions word, whatever the case.
Uncommented(body, i, word) ==
    LET line == Lower(Strip(body[i]))
    IN  /\ ~(line # <<>> /\ line[1] = "#")
        /\ \E k \in 1..Len(line) : line[k] = word

HasInitTcl(tree) ==
    \E i \in 1..Len(tree) : EndsWith(tree[i].path[Len(tree[i].path)], "init.tcl")

AdvisorRan == "_warn_if_actvivetcl_or_teapot_install" \in called

\* C8: the warning is logged exactly when tcl_root is not under a system path,
\* the tree has an entry ending in 'init.tcl', some uncommented line of it
\* mentions 'activetcl' and some uncommented line mentions 'teapot'; nothing is
\* raised and no error is logged.
C8_AdvisoryIffBothMarkers ==
    AdvisorRan =>
        /\ Warnings(log) # {} <=>
              /\ ~in_system_path(tcl_root)
              /\ HasInitTcl(tcltree)
              /\ \E i \in 1..Len(init_body) : Uncommented(init_body, i, "activetcl")
              /\ \E i \in 1..Len(init_body) : Uncommented(init_body, i, "teapot")
        /\ Cardinality(Warnings(log)) <= 1
        /\ ~HasError(log)
        /\ failure # "_warn_if_actvivetcl_or_teapot_install"

C8_Witness ==
    /\ AdvisorRan
    /\ Warnings(log) # {}
    /\ Len(init_body) >= 2
    /\ ~\E i \in 1..Len(init_body) :
          Uncommented(init_body, i, "activetcl") /\ Uncommented(init_body, i, "teapot")

\* C9: after a run that found the roots and built both trees, mod.datas is the
\* list on entry, then the entries of the Tcl tree (under _MEI/tcl), then those of
\* the Tk tree (under _MEI/tk), and nothing else.
C9_DatasExtendedInOrder ==
    (/\ platform \in SupportedPlatforms
     /\ result = "returned"
     /\ ~HasError(log)) =>
        /\ datas = datas0 \o tcltree \o tktree
        /\ \A i \in 1..Len(tcltree) : SubSeq(tcltree[i].name, 1, 2) = <<"_MEI", "tcl">>
        /\ \A i \in 1..Len(tktree) : SubSeq(tktree[i].name, 1, 2) = <<"_MEI", "tk">>

C9_Witness ==
    /\ platform \in SupportedPlatforms
    /\ result = "returned"
    /\ ~HasError(log)
    /\ datas0 # <<>>
    /\ tcltree # <<>>
    /\ tktree # <<>>

\* C10: a subprocess is spawned only after _handle_broken_tk has returned
\* normally, the environment is not written once a subprocess has been spawned,
\* and after _handle_broken_tk has raised no subprocess is spawned.
C10_NormalizerBeforeShellProbe ==
    [][ /\ execCalls' > execCalls =>
              /\ "_handle_broken_tk" \in called
              /\ pc \notin {"hook", "handle_broken_tk"}
              /\ failure = "none"
        /\ execCalls > 0 => environ' = environ
        /\ failure' = "_handle_broken_tk" => execCalls' = 0 ]_vars

C10_Witness ==
    /\ platform = "win32"
    /\ is_venv
    /\ environ # environ0
    /\ execCalls = 2
    /\ result = "returned"

====
